---- MODULE Spec2Model ----
(***************************************************************************)
(* Notion export -> Airtable import scripts.                               *)
(*                                                                         *)
(* Python strings are modelled as sequences of one-character strings, so   *)
(* that strip / lower / split / rsplit / re.sub are computed character by  *)
(* character the way the interpreter computes them.  Opaque identifiers of *)
(* the remote store (record ids, attachment ids) are single atoms.         *)
(***************************************************************************)
EXTENDS Integers, Sequences, FiniteSets, TLC

VARIABLES
    \* replace_image_references (full_import.py)
    parts,          \* the body as it was composed: text chunks and reference tokens
    body,           \* the body handed to replace_image_references
    image_mapping,  \* ordered dict: sequence of [name, rec, att], distinct names
    content,        \* the local variable `content`, reassigned by both re.sub calls
    rpc,            \* position inside replace_image_references
    \* find_asset_match called on its own
    query,          \* the filename argument
    found,          \* the returned (rec_id, att_id)
    mpc,
    \* copy_images (notion_to_airtable.py)
    pending,        \* the (item, img_path) pairs the two for loops still have to visit
    images_dir,     \* output/images: file name -> the source whose bytes it holds
    copy_mapping,   \* the dict str(src) -> new_name copy_images returns
    new_name,       \* the local new_name (dst = images_dir / new_name)
    counter,        \* the local counter
    cpc,            \* position inside copy_images
    dir0,           \* images_dir as copy_images found it
    copied,         \* the copies made so far, in order: <<new_name, src>>
    clobbered,      \* whether some shutil.copy2 wrote over an existing file
    \* process_markdown_file (notion_to_airtable.py)
    md_name,        \* md_path.name
    md_text,        \* the file's text, as read
    item,           \* the ContentItem returned, with the metadata dict it was built from
    reparsed,       \* parse_metadata and extract_body applied to item.body
    ppc,            \* position: "read", "item", "reparsed"
    \* the record mappers (import_to_airtable.py main, full_import.py import_documents)
    importer,       \* which script runs
    records,        \* the rows loaded from the JSON file
    project_id,     \* import_to_airtable: the id create_project_if_needed returned
    visited,        \* how many rows the loop has gone through
    fields,         \* the local `fields` of the row mapped last
    airtable_records, \* the list of {"fields": ...} built so far
    skipped,        \* full_import: the skipped counter
    \* the import run around them (main of full_import.py and of import_to_airtable.py)
    api_key,        \* AIRTABLE_API_KEY as read from the environment
    run,            \* position in main
    next_batch,     \* the loop variable i of the batch loop (0-based)
    requests_log,   \* the network requests made so far, in order, with their responses
    success,        \* success / total_success
    failed,         \* failed / total_failed
    image_files,    \* upload_images_to_asset: the files of IMAGES_DIR still to upload
    uploaded,       \* the files uploaded with an attachment id so far, in order
    \* the export pass (notion_to_airtable.py main) over one document
    md_dir,         \* md_path.parent: the folders from the export root to the document
    existing,       \* the image paths that exist relative to the document's folder
    export_row,     \* the row export_json writes for the document
    epc             \* position in the export pass

rewriteVars == <<parts, body, image_mapping, content, rpc>>
matchVars   == <<query, found, mpc>>
copyVars    == <<pending, images_dir, copy_mapping, new_name, counter, cpc, dir0, copied,
                 clobbered>>
parseVars   == <<md_name, md_text, item, reparsed, ppc>>
mapperVars  == <<importer, records, project_id, visited, fields, airtable_records, skipped>>
runVars     == <<api_key, run, next_batch, requests_log, success, failed, image_files,
                 uploaded>>
exportVars  == <<md_dir, existing, export_row, epc>>
vars == <<rewriteVars, matchVars, copyVars, parseVars, mapperVars, runVars, exportVars>>

None == "None"

----------------------------------------------------------------------------
(* Python str primitives                                                   *)

Whitespace == {" ", "\t", "\n", "\r", "\f"}

UpperToLower ==
    [A |-> "a", B |-> "b", C |-> "c", D |-> "d", E |-> "e", F |-> "f", G |-> "g",
     H |-> "h", I |-> "i", J |-> "j", K |-> "k", L |-> "l", M |-> "m", N |-> "n",
     O |-> "o", P |-> "p", Q |-> "q", R |-> "r", S |-> "s", T |-> "t", U |-> "u",
     V |-> "v", W |-> "w", X |-> "x", Y |-> "y", Z |-> "z"]

UpperLetters == DOMAIN UpperToLower

LowerLetters == {UpperToLower[c] : c \in UpperLetters}

Letters == UpperLetters \cup LowerLetters

Digits == {"0", "1", "2", "3", "4", "5", "6", "7", "8", "9"}

LowerChar(c) == IF c \in UpperLetters THEN UpperToLower[c] ELSE c

\* str.lower()
Lower(s) == [i \in 1..Len(s) |-> LowerChar(s[i])]

\* s.startswith(p, i) with 1-based i
StartsWithAt(s, i, p) ==
    /\ i >= 1
    /\ i + Len(p) - 1 <= Len(s)
    /\ SubSeq(s, i, i + Len(p) - 1) = p

StartsWith(s, p) == StartsWithAt(s, 1, p)

EndsWith(s, p) == Len(p) <= Len(s) /\ SubSeq(s, Len(s) - Len(p) + 1, Len(s)) = p

\* n in h  (substring test; the empty string is in every string)
Contains(h, n) == \E i \in 1..(Len(h) - Len(n) + 1) : SubSeq(h, i, i + Len(n) - 1) = n

\* str.strip(chars): drop leading and trailing characters that are in cs
StripChars(s, cs) ==
    LET keep == {i \in 1..Len(s) : s[i] \notin cs}
    IN  IF keep = {} THEN <<>>
        ELSE LET lo == CHOOSE i \in keep : \A j \in keep : i <= j
                 hi == CHOOSE i \in keep : \A j \in keep : i >= j
             IN  SubSeq(s, lo, hi)

\* str.strip()
Strip(s) == StripChars(s, Whitespace)

IndicesOf(s, c) == {i \in 1..Len(s) : s[i] = c}

FirstIndexOf(s, c) ==
    IF IndicesOf(s, c) = {} THEN 0
    ELSE CHOOSE i \in IndicesOf(s, c) : \A j \in IndicesOf(s, c) : i <= j

LastIndexOf(s, c) ==
    IF IndicesOf(s, c) = {} THEN 0
    ELSE CHOOSE i \in IndicesOf(s, c) : \A j \in IndicesOf(s, c) : i >= j

\* s.split(c)[0]
SplitFirst(s, c) == IF FirstIndexOf(s, c) = 0 THEN s ELSE SubSeq(s, 1, FirstIndexOf(s, c) - 1)

\* s.split(c)[-1]
SplitLast(s, c) == SubSeq(s, LastIndexOf(s, c) + 1, Len(s))

\* s.rsplit(c, 1)[0]
RSplitHead(s, c) == IF LastIndexOf(s, c) = 0 THEN s ELSE SubSeq(s, 1, LastIndexOf(s, c) - 1)

\* s.replace(old, new)
RECURSIVE ReplaceAll(_, _, _)
ReplaceAll(s, old, new) ==
    IF s = <<>> THEN <<>>
    ELSE IF StartsWith(s, old)
         THEN new \o ReplaceAll(SubSeq(s, Len(old) + 1, Len(s)), old, new)
         ELSE <<Head(s)>> \o ReplaceAll(Tail(s), old, new)

\* index just past the maximal run, starting at i, of characters other than stop
RECURSIVE RunEnd(_, _, _)
RunEnd(s, i, stop) == IF i <= Len(s) /\ s[i] # stop THEN RunEnd(s, i + 1, stop) ELSE i

RECURSIVE Flatten(_)
Flatten(ss) == IF ss = <<>> THEN <<>> ELSE Head(ss) \o Flatten(Tail(ss))

----------------------------------------------------------------------------
(* full_import.py: replace_image_references                                *)

ImageExts ==
    { <<".", "p", "n", "g">>, <<".", "j", "p", "g">>, <<".", "j", "p", "e", "g">>,
      <<".", "g", "i", "f">>, <<".", "w", "e", "b", "p">> }

AssetScheme == <<"a", "s", "s", "e", "t", ":">>

\* filename in image_mapping
InMapping(m, name) == \E k \in 1..Len(m) : m[k].name = name

\* image_mapping[filename]
Lookup(m, name) ==
    LET k == CHOOSE k \in 1..Len(m) : m[k].name = name IN <<m[k].rec, m[k].att>>

\* smallest element of a non-empty set of indices, 0 for the empty set:
\* the entry a `for ... in image_mapping.items()` loop returns from first
FirstOf(hits) == IF hits = {} THEN 0 ELSE CHOOSE k \in hits : \A j \in hits : k <= j

\* for img_name, ids in image_mapping.items(): if img_name.lower() == lowered
FirstCaseInsensitive(m, lowered) == FirstOf({k \in 1..Len(m) : Lower(m[k].name) = lowered})

\* for img_name, ids in image_mapping.items():
\*     if filename_base in img_base or img_base in filename_base
FirstFuzzy(m, filename_base) ==
    FirstOf({k \in 1..Len(m) :
                \/ Contains(Lower(RSplitHead(m[k].name, ".")), filename_base)
                \/ Contains(filename_base, Lower(RSplitHead(m[k].name, ".")))})

find_asset_match(filename0, m) ==
    LET filename       == Strip(filename0)
        filename_lower == Lower(filename)
        base_filename  == SplitLast(filename, "/")
        filename_base  == Lower(RSplitHead(filename, "."))
        ci    == FirstCaseInsensitive(m, filename_lower)
        cib   == FirstCaseInsensitive(m, Lower(base_filename))
        fuzzy == FirstFuzzy(m, filename_base)
    IN  IF InMapping(m, filename) THEN Lookup(m, filename)
        ELSE IF ci # 0 THEN <<m[ci].rec, m[ci].att>>
        ELSE IF InMapping(m, base_filename) THEN Lookup(m, base_filename)
        ELSE IF cib # 0 THEN <<m[cib].rec, m[cib].att>>
        ELSE IF fuzzy # 0 THEN <<m[fuzzy].rec, m[fuzzy].att>>
        ELSE <<None, None>>

\* f"![{caption}](asset:{rec_id}:{att_id})"
AssetPointer(caption, rec, att) ==
    <<"!", "[">> \o caption \o <<"]", "(">> \o AssetScheme \o <<rec, ":", att, ")">>

\* replace_obsidian that drops a reference it cannot match instead of
\* returning match.group(0)
replace_obsidian_dropping(group0, group1, m) ==
    LET filename == IF "|" \in {group1[i] : i \in 1..Len(group1)}
                    THEN SplitFirst(group1, "|") ELSE group1
        ids      == find_asset_match(filename, m)
    IN  IF ids[1] # None /\ ids[2] # None
        THEN AssetPointer(RSplitHead(filename, "."), ids[1], ids[2])
        ELSE <<>>

replace_obsidian(group0, group1, m) ==
    LET filename == IF "|" \in {group1[i] : i \in 1..Len(group1)}
                    THEN SplitFirst(group1, "|") ELSE group1
        ids      == find_asset_match(filename, m)
    IN  IF ids[1] # None /\ ids[2] # None
        THEN AssetPointer(RSplitHead(filename, "."), ids[1], ids[2])
        ELSE group0

\* replace_markdown without the URL-decoding of %20
replace_markdown_undecoded(group0, alt_text, file_path, m) ==
    LET filename == SplitLast(file_path, "/")
        ids      == find_asset_match(filename, m)
        caption  == IF alt_text # <<>> /\ ~(\E e \in ImageExts : EndsWith(alt_text, e))
                    THEN alt_text ELSE RSplitHead(filename, ".")
    IN  IF ids[1] # None /\ ids[2] # None
        THEN AssetPointer(caption, ids[1], ids[2])
        ELSE group0

replace_markdown(group0, alt_text, file_path, m) ==
    LET filename == ReplaceAll(SplitLast(file_path, "/"), <<"%", "2", "0">>, <<" ">>)
        ids      == find_asset_match(filename, m)
        caption  == IF alt_text # <<>> /\ ~(\E e \in ImageExts : EndsWith(alt_text, e))
                    THEN alt_text ELSE RSplitHead(filename, ".")
    IN  IF ids[1] # None /\ ids[2] # None
        THEN AssetPointer(caption, ids[1], ids[2])
        ELSE group0

\* r'!\[\[([^\]]+)\]\]' tried at position i: index of the match's last
\* character, 0 when the pattern does not match there
ObsidianMatchEnd(s, i) ==
    IF StartsWithAt(s, i, <<"!", "[", "[">>)
    THEN LET j == RunEnd(s, i + 3, "]")
         IN  IF j > i + 3 /\ StartsWithAt(s, j, <<"]", "]">>) THEN j + 1 ELSE 0
    ELSE 0

\* r'!\[([^\]]*)\]\((?!asset:)([^)]+\.(?:png|jpg|jpeg|gif|webp))\)' with
\* re.IGNORECASE tried at position i: <<index of "]" closing the alt text,
\* index of the closing ")">>, <<0, 0>> when the pattern does not match there
MarkdownMatch(s, i) ==
    IF StartsWithAt(s, i, <<"!", "[">>)
    THEN LET a == RunEnd(s, i + 2, "]")
             p == RunEnd(s, a + 2, ")")
             path == SubSeq(s, a + 2, p - 1)
         IN  IF /\ StartsWithAt(s, a, <<"]", "(">>)
                /\ ~StartsWithAt(Lower(s), a + 2, AssetScheme)
                /\ p <= Len(s)
                /\ \E e \in ImageExts : EndsWith(Lower(path), e) /\ Len(path) > Len(e)
             THEN <<a, p>>
             ELSE <<0, 0>>
    ELSE <<0, 0>>

\* re.sub(obsidian pattern, replace_obsidian, content), scanning from i
RECURSIVE SubObsidian(_, _, _)
SubObsidian(s, i, m) ==
    IF i > Len(s) THEN <<>>
    ELSE LET e == ObsidianMatchEnd(s, i)
         IN  IF e = 0 THEN <<s[i]>> \o SubObsidian(s, i + 1, m)
             ELSE replace_obsidian(SubSeq(s, i, e), SubSeq(s, i + 3, e - 2), m)
                      \o SubObsidian(s, e + 1, m)

\* re.sub(markdown pattern, replace_markdown, content, flags=re.IGNORECASE)
RECURSIVE SubMarkdown(_, _, _)
SubMarkdown(s, i, m) ==
    IF i > Len(s) THEN <<>>
    ELSE LET ap == MarkdownMatch(s, i)
         IN  IF ap[2] = 0 THEN <<s[i]>> \o SubMarkdown(s, i + 1, m)
             ELSE replace_markdown(SubSeq(s, i, ap[2]), SubSeq(s, i + 2, ap[1] - 1),
                                   SubSeq(s, ap[1] + 2, ap[2] - 1), m)
                      \o SubMarkdown(s, ap[2] + 1, m)

replace_image_references(c, m) == SubMarkdown(SubObsidian(c, 1, m), 1, m)

----------------------------------------------------------------------------
(* Inputs of replace_image_references: bodies composed of text chunks and  *)
(* image references of both notations, and asset mappings.                 *)

MaxParts == 2

Png == <<".", "p", "n", "g">>

\* a chunk of body text that is no image reference
TextPart(chars) == [kind |-> "text", raw |-> chars, target |-> <<>>, alt |-> <<>>]

\* ![[target]] and ![[target|alias]]
ObsidianRef(target, alias) ==
    [kind |-> "obsidian",
     raw |-> <<"!", "[", "[">> \o target
                 \o (IF alias = <<>> THEN <<>> ELSE <<"|">> \o alias) \o <<"]", "]">>,
     target |-> target, alt |-> alias]

\* ![alt](path)
MarkdownRef(alt, path) ==
    [kind |-> "markdown",
     raw |-> <<"!", "[">> \o alt \o <<"]", "(">> \o path \o <<")">>,
     target |-> path, alt |-> alt]

PartPool ==
    { TextPart(<<"x", " ">>),
      TextPart(<<"!", "[", "k", "]", "(", "a", ".", "t", "x", "t", ")">>),
      TextPart(AssetPointer(<<"a">>, "r1", "t1")),
      ObsidianRef(<<"a">> \o Png, <<>>),
      ObsidianRef(<<"a">> \o Png, <<"k">>),
      ObsidianRef(<<"d", "/", "A">> \o Png, <<>>),
      ObsidianRef(<<"z">> \o Png, <<>>),
      MarkdownRef(<<"k">>, <<"d", "/", "a">> \o Png),
      MarkdownRef(<<>>, <<"a", "%", "2", "0", "b", ".", "j", "p", "g">>),
      MarkdownRef(<<"b">> \o Png, <<"z", ".", "G", "I", "F">>) }

\* entries as upload_images_to_asset stores them: one (rec_id, att_id) per name
EntryA  == [name |-> <<"a">> \o Png, rec |-> "r1", att |-> "t1"]
EntryAB == [name |-> <<"a", " ", "b", ".", "j", "p", "g">>, rec |-> "r2", att |-> "t2"]
EntryUA == [name |-> <<"A">> \o Png, rec |-> "r3", att |-> "t3"]

RewriteMappings ==
    { <<>>, <<EntryA>>, <<EntryAB, EntryA>>, <<EntryUA, EntryA>>, <<EntryA, EntryUA>> }

SeqsUpTo(S, n) == UNION {[1..k -> S] : k \in 1..n}

RewriteIdle == parts = <<>> /\ body = <<>> /\ content = <<>> /\ rpc = "idle"

MatchIdle == query = <<>> /\ found = <<None, None>> /\ mpc = "idle"

CopyIdle ==
    /\ pending = <<>> /\ images_dir = <<>> /\ copy_mapping = <<>> /\ new_name = <<>>
    /\ counter = 0 /\ cpc = "idle" /\ dir0 = <<>> /\ copied = <<>> /\ clobbered = FALSE

ParseIdle ==
    md_name = <<>> /\ md_text = <<>> /\ item = None /\ reparsed = None /\ ppc = "idle"

MapperIdle ==
    /\ importer = None /\ records = <<>> /\ project_id = None /\ visited = 0
    /\ fields = <<>> /\ airtable_records = <<>> /\ skipped = 0

RunIdle ==
    /\ api_key = <<>> /\ run = "idle" /\ next_batch = 0 /\ requests_log = <<>>
    /\ success = 0 /\ failed = 0 /\ image_files = <<>> /\ uploaded = <<>>

ExportIdle == md_dir = <<>> /\ existing = {} /\ export_row = None /\ epc = "idle"

InitRewrite ==
    /\ parts \in SeqsUpTo(PartPool, MaxParts)
    /\ body = Flatten([i \in 1..Len(parts) |-> parts[i].raw])
    /\ image_mapping \in RewriteMappings
    /\ content = body
    /\ rpc = "obsidian"
    /\ MatchIdle
    /\ CopyIdle
    /\ ParseIdle
    /\ MapperIdle
    /\ RunIdle
    /\ ExportIdle

\* content = re.sub(r'!\[\[([^\]]+)\]\]', replace_obsidian, content)
ObsidianPass ==
    /\ rpc = "obsidian"
    /\ content' = SubObsidian(content, 1, image_mapping)
    /\ rpc' = "markdown"
    /\ UNCHANGED <<parts, body, image_mapping, matchVars, copyVars, parseVars, mapperVars, runVars, exportVars>>

\* content = re.sub(markdown pattern, replace_markdown, content, flags=re.IGNORECASE)
MarkdownPass ==
    /\ rpc = "markdown"
    /\ content' = SubMarkdown(content, 1, image_mapping)
    /\ rpc' = "done"
    /\ UNCHANGED <<parts, body, image_mapping, matchVars, copyVars, parseVars, mapperVars, runVars, exportVars>>

NextRewrite == ObsidianPass \/ MarkdownPass

SpecRewrite == InitRewrite /\ [][NextRewrite]_vars

----------------------------------------------------------------------------
(* find_asset_match on its own: a referenced filename against an ordered   *)
(* asset mapping.                                                          *)

MaxMap == 2

MatchEntries ==
    { [name |-> <<"u">> \o Png, rec |-> "r1", att |-> "t1"],
      [name |-> <<"u", " ", "1">> \o Png, rec |-> "r2", att |-> "t2"],
      [name |-> <<"V">> \o Png, rec |-> "r3", att |-> "t3"] }

MatchQueries ==
    { <<"u", " ", "1", " ", "3">> \o Png,
      <<"u", " ", "1">> \o Png,
      <<"U", ".", "P", "N", "G">>,
      <<"d", "/", "u">> \o Png,
      <<"d", "/", "v">> \o Png,
      <<" ", "u">> \o Png,
      <<"v", " ", "2">> \o Png,
      <<"w">> \o Png }

\* dict keys are distinct: the sequences of at most n distinct entries
InjectiveSeqs(S, n) ==
    {s \in UNION {[1..k -> S] : k \in 0..n} : \A i, j \in 1..Len(s) : i # j => s[i] # s[j]}

InitMatch ==
    /\ image_mapping \in InjectiveSeqs(MatchEntries, MaxMap)
    /\ query \in MatchQueries
    /\ found = <<None, None>>
    /\ mpc = "call"
    /\ RewriteIdle
    /\ CopyIdle
    /\ ParseIdle
    /\ MapperIdle
    /\ RunIdle
    /\ ExportIdle

\* rec_id, att_id = find_asset_match(filename)
FindAssetMatch ==
    /\ mpc = "call"
    /\ found' = find_asset_match(query, image_mapping)
    /\ mpc' = "done"
    /\ UNCHANGED <<rewriteVars, query, copyVars, parseVars, mapperVars, runVars, exportVars>>

NextMatch == FindAssetMatch

SpecMatch == InitMatch /\ [][NextMatch]_vars

----------------------------------------------------------------------------
(* Claims about replace_image_references                                   *)

\* number of (possibly overlapping) occurrences of n in h
CountOcc(h, n) ==
    Cardinality({i \in 1..(Len(h) - Len(n) + 1) : SubSeq(h, i, i + Len(n) - 1) = n})

RECURSIVE SumOcc(_, _)
SumOcc(ps, n) ==
    IF ps = <<>> THEN 0
    ELSE (IF Head(ps).kind = "text" THEN CountOcc(Head(ps).raw, n) ELSE 0) + SumOcc(Tail(ps), n)

\* "](asset:rec:att)": what follows the caption in an asset pointer
PointerTail(rec, att) == <<"]", "(">> \o AssetScheme \o <<rec, ":", att, ")">>

\* the file a reference names: the last path segment, %20 read as a space
\* in the bracketed-path notation
RefFilename(p) ==
    IF p.kind = "markdown"
    THEN ReplaceAll(SplitLast(p.target, "/"), <<"%", "2", "0">>, <<" ">>)
    ELSE SplitLast(p.target, "/")

\* the references of the body whose filename is the key `name`
RefsTo(name) == {i \in 1..Len(parts) : parts[i].kind # "text" /\ RefFilename(parts[i]) = name}

\* C1: after replace_image_references every image reference, of either
\* notation, whose filename has an entry (rec, att) in the mapping has become
\* an asset pointer ![caption](asset:rec:att) (one pointer per reference, on
\* top of the pointers the text already held), and the reference's raw token
\* no longer occurs in the result.
C1_MappedReferencesBecomePointers ==
    rpc = "done" =>
        \A k \in 1..Len(image_mapping) :
            LET e == image_mapping[k]
            IN  /\ CountOcc(content, PointerTail(e.rec, e.att))
                       >= Cardinality(RefsTo(e.name)) + SumOcc(parts, PointerTail(e.rec, e.att))
                /\ \A i \in RefsTo(e.name) : ~Contains(content, parts[i].raw)

C1_Witness ==
    /\ rpc = "done"
    /\ \E i, j \in 1..Len(parts) :
          /\ parts[i].kind = "obsidian" /\ parts[j].kind = "markdown"
          /\ InMapping(image_mapping, RefFilename(parts[i]))
          /\ InMapping(image_mapping, RefFilename(parts[j]))
    /\ content # body

\* what the matching rules are given for a reference: the double-bracket
\* target as written, the decoded last segment of a bracketed path
MatchArg(p) == IF p.kind = "markdown" THEN RefFilename(p) ELSE p.target

\* res, read from pos on, is the remaining parts one after another, where a
\* text chunk and a reference no rule matches stand as their raw token and a
\* matched reference stands as one asset pointer of the asset found for it
RECURSIVE Aligned(_, _, _, _)
Aligned(ps, res, pos, m) ==
    IF ps = <<>> THEN pos = Len(res) + 1
    ELSE LET p   == Head(ps)
             ids == IF p.kind = "text" THEN <<None, None>> ELSE find_asset_match(MatchArg(p), m)
             c   == RunEnd(res, pos + 2, "]")
         IN  IF ids = <<None, None>>
             THEN /\ StartsWithAt(res, pos, p.raw)
                  /\ Aligned(Tail(ps), res, pos + Len(p.raw), m)
             ELSE /\ StartsWithAt(res, pos, <<"!", "[">>)
                  /\ StartsWithAt(res, c, PointerTail(ids[1], ids[2]))
                  /\ Aligned(Tail(ps), res, c + Len(PointerTail(ids[1], ids[2])), m)

\* C2: a reference for which no matching rule finds an asset is left in the
\* body exactly as its raw token, and all text outside the rewritten
\* reference tokens is unchanged.
C2_UnmatchedAndTextUntouched ==
    rpc = "done" => Aligned(parts, content, 1, image_mapping)

C2_Witness ==
    /\ rpc = "done"
    /\ \E i, j \in 1..Len(parts) :
          /\ parts[i].kind # "text" /\ parts[j].kind # "text"
          /\ find_asset_match(MatchArg(parts[i]), image_mapping) = <<None, None>>
          /\ find_asset_match(MatchArg(parts[j]), image_mapping) # <<None, None>>
    /\ content # body

----------------------------------------------------------------------------
(* Claims about find_asset_match                                           *)

\* rule (d) as the specification words it: a trailing "space + digits" token
\* immediately before the extension is removed ("u 1 3.png" -> "u 1.png")
StripTrailingDigits(name) ==
    LET dot   == LastIndexOf(name, ".")
        stem  == RSplitHead(name, ".")
        ext   == IF dot = 0 THEN <<>> ELSE SubSeq(name, dot, Len(name))
        cands == {i \in 2..Len(stem) :
                     stem[i - 1] = " " /\ \A j \in i..Len(stem) : stem[j] \in Digits}
    IN  IF cands = {} THEN name
        ELSE SubSeq(stem, 1, (CHOOSE i \in cands : \A j \in cands : i <= j) - 2) \o ext

\* the rules of the chain, each the index of the entry it yields (0: fails)
RuleExact(f, m) == FirstOf({k \in 1..Len(m) : m[k].name = Strip(f)})

RuleCaseInsensitive(f, m) == FirstOf({k \in 1..Len(m) : Lower(m[k].name) = Lower(Strip(f))})

RuleBasename(f, m) ==
    LET b == SplitLast(Strip(f), "/")
    IN  IF FirstOf({k \in 1..Len(m) : m[k].name = b}) # 0
        THEN FirstOf({k \in 1..Len(m) : m[k].name = b})
        ELSE FirstOf({k \in 1..Len(m) : Lower(m[k].name) = Lower(b)})

RuleTrailingDigits(f, m) ==
    LET n == StripTrailingDigits(SplitLast(Strip(f), "/"))
    IN  IF n = SplitLast(Strip(f), "/") THEN 0 ELSE FirstOf({k \in 1..Len(m) : m[k].name = n})

RuleSubstring(f, m) ==
    LET fb == Lower(RSplitHead(Strip(f), "."))
    IN  FirstOf({k \in 1..Len(m) :
                    \/ Contains(Lower(RSplitHead(m[k].name, ".")), fb)
                    \/ Contains(fb, Lower(RSplitHead(m[k].name, ".")))})

\* the entry the chain (a), (b), (c), (d), (e) yields, stopping at the first
\* rule that succeeds
ChainEntry(f, m) ==
    IF RuleExact(f, m) # 0 THEN RuleExact(f, m)
    ELSE IF RuleCaseInsensitive(f, m) # 0 THEN RuleCaseInsensitive(f, m)
    ELSE IF RuleBasename(f, m) # 0 THEN RuleBasename(f, m)
    ELSE IF RuleTrailingDigits(f, m) # 0 THEN RuleTrailingDigits(f, m)
    ELSE RuleSubstring(f, m)

\* C3: asset matching returns the result of the earliest rule that succeeds
\* in the order (a) exact, (b) case-insensitive, (c) basename, (d) trailing
\* " <digits>" normalization, (e) substring containment (first entry in
\* iteration order); a later rule is never used when an earlier one succeeds.
C3_EarliestRuleOfTheChain ==
    mpc = "done" =>
        LET k == ChainEntry(query, image_mapping)
        IN  found = IF k = 0 THEN <<None, None>>
                    ELSE <<image_mapping[k].rec, image_mapping[k].att>>

\* C4: a reference whose filename is a mapped name plus a trailing " <digits>"
\* token before the extension, and which no rule before (d) resolves, resolves
\* to the asset of that mapped name, whatever else the mapping holds and in
\* whatever order.
C4_TrailingDigitsResolveToMappedName ==
    LET n == StripTrailingDigits(query)
    IN  (/\ mpc = "done"
         /\ n # query
         /\ InMapping(image_mapping, n)
         /\ RuleExact(query, image_mapping) = 0
         /\ RuleCaseInsensitive(query, image_mapping) = 0
         /\ RuleBasename(query, image_mapping) = 0)
        => found = Lookup(image_mapping, n)

----------------------------------------------------------------------------
(* notion_to_airtable.py: copy_images                                      *)

NotionIdLen == 32

PrefixLen == 8

MaxImages == 2

DigitChars == <<"0", "1", "2", "3", "4", "5", "6", "7", "8", "9">>

\* str(n) for n >= 0, as the f-string formats the counter
RECURSIVE IntToStr(_)
IntToStr(n) ==
    IF n < 10 THEN <<DigitChars[n + 1]>>
    ELSE IntToStr(n \div 10) \o <<DigitChars[(n % 10) + 1]>>

\* s[:n]
Prefix(s, n) == SubSeq(s, 1, IF Len(s) < n THEN Len(s) ELSE n)

\* Path(img_path).name
SrcName(path) == SplitLast(path, "/")

\* f"{item.notion_id[:8]}_{src.name}"
FlatName(notion_id, path) == Prefix(notion_id, PrefixLen) \o <<"_">> \o SrcName(path)

\* f"{item.notion_id[:8]}_{counter}_{src.name}"
NumberedName(notion_id, n, path) ==
    Prefix(notion_id, PrefixLen) \o <<"_">> \o IntToStr(n) \o <<"_">> \o SrcName(path)

\* a test for an existing destination that never finds one
DstExistsNever(dir, name) == FALSE

\* dst.exists()
DstExists(dir, name) == name \in DOMAIN dir

\* 32-character identifiers: two that share their first 8 characters, one
\* that does not, and the file-stem fallback of a document without one
IdA  == [i \in 1..NotionIdLen |-> IF i <= PrefixLen THEN "a" ELSE "0"]
IdA2 == [i \in 1..NotionIdLen |-> IF i <= PrefixLen THEN "a" ELSE "1"]
IdDoc == <<"D", "o", "c">>

PathPA  == <<"p", "/", "a">> \o Png
PathQA  == <<"q", "/", "a">> \o Png
PathP1A == <<"p", "/", "1", "_", "a">> \o Png

\* one iteration of `for item in items: for img_path in item.images`,
\* with what src.exists() will answer
CopyTask(id, path, exists) == [notion_id |-> id, img_path |-> path, exists |-> exists]

CopyTasks ==
    { CopyTask(IdA, PathPA, TRUE), CopyTask(IdA, PathQA, TRUE), CopyTask(IdA2, PathPA, TRUE),
      CopyTask(IdA, PathP1A, TRUE), CopyTask(IdDoc, PathPA, TRUE), CopyTask(IdA, PathQA, FALSE) }

\* files output/images may hold before the run (images_dir.mkdir(exist_ok=True))
OldFiles == { FlatName(IdA, PathPA), NumberedName(IdA, 1, PathPA) }

InitCopy ==
    /\ pending \in UNION {[1..k -> CopyTasks] : k \in 0..MaxImages}
    /\ \E old \in SUBSET OldFiles : images_dir = [n \in old |-> <<"o", "l", "d">>]
    /\ dir0 = images_dir
    /\ copy_mapping = <<>>
    /\ new_name = <<>>
    /\ counter = 0
    /\ cpc = "loop"
    /\ copied = <<>>
    /\ clobbered = FALSE
    /\ RewriteIdle /\ image_mapping = <<>>
    /\ MatchIdle
    /\ ParseIdle
    /\ MapperIdle
    /\ RunIdle
    /\ ExportIdle

\* if src.exists(): is false
SkipMissing ==
    /\ cpc = "loop" /\ pending # <<>>
    /\ ~Head(pending).exists
    /\ pending' = Tail(pending)
    /\ UNCHANGED <<images_dir, copy_mapping, new_name, counter, cpc, dir0, copied, clobbered>>
    /\ UNCHANGED <<rewriteVars, matchVars, parseVars, mapperVars, runVars, exportVars>>

\* new_name = f"{item.notion_id[:8]}_{src.name}"; counter = 1
StartCopy ==
    /\ cpc = "loop" /\ pending # <<>>
    /\ Head(pending).exists
    /\ new_name' = FlatName(Head(pending).notion_id, Head(pending).img_path)
    /\ counter' = 1
    /\ cpc' = "while"
    /\ UNCHANGED <<pending, images_dir, copy_mapping, dir0, copied, clobbered>>
    /\ UNCHANGED <<rewriteVars, matchVars, parseVars, mapperVars, runVars, exportVars>>

\* one turn of `while dst.exists():`
RetryName ==
    /\ cpc = "while"
    /\ DstExists(images_dir, new_name)
    /\ new_name' = NumberedName(Head(pending).notion_id, counter, Head(pending).img_path)
    /\ counter' = counter + 1
    /\ UNCHANGED <<pending, images_dir, copy_mapping, cpc, dir0, copied, clobbered>>
    /\ UNCHANGED <<rewriteVars, matchVars, parseVars, mapperVars, runVars, exportVars>>

\* shutil.copy2(src, dst); image_mapping[str(src)] = new_name
CopyFile ==
    /\ cpc = "while"
    /\ ~DstExists(images_dir, new_name)
    /\ images_dir' = (new_name :> Head(pending).img_path) @@ images_dir
    /\ copy_mapping' = (Head(pending).img_path :> new_name) @@ copy_mapping
    /\ copied' = Append(copied, <<new_name, Head(pending).img_path>>)
    /\ clobbered' = (clobbered \/ new_name \in DOMAIN images_dir)
    /\ pending' = Tail(pending)
    /\ cpc' = "loop"
    /\ UNCHANGED <<new_name, counter, dir0>>
    /\ UNCHANGED <<rewriteVars, matchVars, parseVars, mapperVars, runVars, exportVars>>

\* return image_mapping
ReturnMapping ==
    /\ cpc = "loop" /\ pending = <<>>
    /\ cpc' = "done"
    /\ UNCHANGED <<pending, images_dir, copy_mapping, new_name, counter, dir0, copied, clobbered>>
    /\ UNCHANGED <<rewriteVars, matchVars, parseVars, mapperVars, runVars, exportVars>>

NextCopy == SkipMissing \/ StartCopy \/ RetryName \/ CopyFile \/ ReturnMapping

SpecCopy == InitCopy /\ [][NextCopy]_vars

(* Claims about copy_images                                                *)

\* C5: a copy never writes to a file name that already exists: the files the
\* directory held stay as they were, every copy made is a file of its own
\* holding its source, the name tried is <id[:8]>_<basename> and then
\* <id[:8]>_<n>_<basename> for n = 1, 2, ... with every earlier candidate
\* taken, and the search for a free name takes at most one turn per file of
\* the directory.
C5_CopyNeverOverwrites ==
    /\ ~clobbered
    /\ \A n \in DOMAIN dir0 : n \in DOMAIN images_dir /\ images_dir[n] = dir0[n]
    /\ \A i \in 1..Len(copied) :
          /\ copied[i][1] \in DOMAIN images_dir
          /\ copied[i][1] \notin DOMAIN dir0
          /\ images_dir[copied[i][1]] = copied[i][2]
          /\ \A j \in 1..Len(copied) : i # j => copied[i][1] # copied[j][1]
    /\ Cardinality(DOMAIN images_dir) = Cardinality(DOMAIN dir0) + Len(copied)
    /\ cpc = "while" =>
          LET id == Head(pending).notion_id
              p  == Head(pending).img_path
          IN  /\ counter >= 1
              /\ counter <= Cardinality(DOMAIN images_dir) + 1
              /\ new_name = IF counter = 1 THEN FlatName(id, p)
                            ELSE NumberedName(id, counter - 1, p)
              /\ counter > 1 => FlatName(id, p) \in DOMAIN images_dir
              /\ \A k \in 1..(counter - 2) : NumberedName(id, k, p) \in DOMAIN images_dir

\* two sources with the same flattened name were both copied, the second
\* under a numbered name
C5_Witness ==
    /\ cpc = "done"
    /\ \E i, j \in 1..Len(copied) :
          /\ i < j
          /\ copied[i][2] # copied[j][2]
          /\ SrcName(copied[i][2]) = SrcName(copied[j][2])
          /\ Prefix(copied[i][1], PrefixLen) = Prefix(copied[j][1], PrefixLen)
          /\ copied[i][1] # copied[j][1]

----------------------------------------------------------------------------
(* notion_to_airtable.py: process_markdown_file                            *)

HexChars == {"a", "b", "c", "d", "e", "f"} \cup Digits

DotMd == <<".", "m", "d">>

HeadingMarker == <<"#", " ">>

\* re.search(r'([a-f0-9]{32})\.md$', filename): the group, or None
extract_notion_id(filename) ==
    LET n == Len(filename) - Len(DotMd)
    IN  IF /\ EndsWith(filename, DotMd)
           /\ n >= NotionIdLen
           /\ \A i \in (n - NotionIdLen + 1)..n : filename[i] \in HexChars
        THEN SubSeq(filename, n - NotionIdLen + 1, n)
        ELSE None

\* md_path.stem: the name without its last suffix (a leading dot starts no suffix)
Stem(name) ==
    IF LastIndexOf(name, ".") > 1 /\ LastIndexOf(name, ".") < Len(name)
    THEN SubSeq(name, 1, LastIndexOf(name, ".") - 1)
    ELSE name

\* content.split('\n')
RECURSIVE SplitLines(_)
SplitLines(s) ==
    IF FirstIndexOf(s, "\n") = 0 THEN <<s>>
    ELSE <<SubSeq(s, 1, FirstIndexOf(s, "\n") - 1)>>
         \o SplitLines(SubSeq(s, FirstIndexOf(s, "\n") + 1, Len(s)))

\* '\n'.join(lines)
RECURSIVE JoinLines(_)
JoinLines(lines) ==
    IF lines = <<>> THEN <<>>
    ELSE IF Len(lines) = 1 THEN lines[1]
    ELSE lines[1] \o <<"\n">> \o JoinLines(Tail(lines))

\* index just past the maximal run of [A-Za-z\s] that starts at i
RECURSIVE KeyRunEnd(_, _)
KeyRunEnd(s, i) ==
    IF i <= Len(s) /\ s[i] \in Letters \cup Whitespace THEN KeyRunEnd(s, i + 1) ELSE i

\* re.match(r'^([A-Za-z\s]+):\s*(.+)$', line) on a stripped line: the key class is
\* greedy and ':' is outside it, so the run must be followed by ':' and by at least
\* one more character
KeyValueMatch(line) ==
    /\ KeyRunEnd(line, 1) > 1
    /\ KeyRunEnd(line, 1) < Len(line)
    /\ line[KeyRunEnd(line, 1)] = ":"

\* match.group(1).strip().lower().replace(' ', '_')
KeyOf(line) ==
    ReplaceAll(Lower(Strip(SubSeq(line, 1, KeyRunEnd(line, 1) - 1))), <<" ">>, <<"_">>)

\* match.group(2).strip()
ValueOf(line) == Strip(SubSeq(line, KeyRunEnd(line, 1) + 1, Len(line)))

\* for i, line in enumerate(lines): if line.startswith('# '): the 1-based number of
\* that line, 0 when there is none (start_idx stays 0)
TitleLineNumber(lines) == FirstOf({i \in 1..Len(lines) : StartsWith(lines[i], HeadingMarker)})

\* the numbers of the lines, from line i on, whose entry parse_metadata stores
RECURSIVE MetadataLineNumbers(_, _)
MetadataLineNumbers(lines, i) ==
    IF i > Len(lines) THEN <<>>
    ELSE LET line == Strip(lines[i])
         IN  IF line = <<>> THEN MetadataLineNumbers(lines, i + 1)
             ELSE IF line[1] \in {"#", "!", "["} THEN <<>>
             ELSE IF KeyValueMatch(line)
                  THEN <<i>> \o MetadataLineNumbers(lines, i + 1)
                  ELSE MetadataLineNumbers(lines, i + 1)

\* metadata[key] = value for the lines numbered ns, in order (a later line wins)
RECURSIVE DictFromLines(_, _)
DictFromLines(lines, ns) ==
    IF ns = <<>> THEN <<>>
    ELSE LET line == Strip(lines[ns[Len(ns)]])
         IN  (KeyOf(line) :> ValueOf(line)) @@ DictFromLines(lines, SubSeq(ns, 1, Len(ns) - 1))

parse_metadata(content0) ==
    LET lines == SplitLines(content0)
    IN  DictFromLines(lines, MetadataLineNumbers(lines, TitleLineNumber(lines) + 1))

\* the numbers of the lines, from line i on, that extract_body appends to body_lines
RECURSIVE BodyLineNumbers(_, _, _, _)
BodyLineNumbers(lines, i, in_metadata, found_title) ==
    IF i > Len(lines) THEN <<>>
    ELSE IF StartsWith(lines[i], HeadingMarker) /\ ~found_title
         THEN BodyLineNumbers(lines, i + 1, in_metadata, TRUE)
    ELSE IF in_metadata /\ (Strip(lines[i]) = <<>> \/ KeyValueMatch(Strip(lines[i])))
         THEN BodyLineNumbers(lines, i + 1, TRUE, found_title)
    ELSE <<i>> \o BodyLineNumbers(lines, i + 1, FALSE, found_title)

extract_body(content0) ==
    LET lines == SplitLines(content0)
        kept == BodyLineNumbers(lines, 1, TRUE, FALSE)
    IN  Strip(JoinLines([k \in 1..Len(kept) |-> lines[kept[k]]]))

\* re.search(r'^# (.+)$', content, re.MULTILINE): the number of the first line that
\* is '# ' followed by at least one character, 0 when there is none
TitleMatch(lines) ==
    FirstOf({i \in 1..Len(lines) :
                StartsWith(lines[i], HeadingMarker) /\ Len(lines[i]) > Len(HeadingMarker)})

\* dict.get(key, default)
DictGet(d, key, default) == IF key \in DOMAIN d THEN d[key] ELSE default

StatusKey == <<"s", "t", "a", "t", "u", "s">>

\* r'!\[([^\]]*)\]\(([^)]+)\)' tried at position i: <<index of "]" closing the alt
\* text, index of the closing ")">>, <<0, 0>> when the pattern does not match there
FindImagesMatch(s, i) ==
    IF StartsWithAt(s, i, <<"!", "[">>)
    THEN LET a == RunEnd(s, i + 2, "]")
             p == RunEnd(s, a + 2, ")")
         IN  IF StartsWithAt(s, a, <<"]", "(">>) /\ p > a + 2 /\ p <= Len(s)
             THEN <<a, p>>
             ELSE <<0, 0>>
    ELSE <<0, 0>>

\* for match in re.finditer(md_pattern, content): img_path, '%20' decoded, in order
RECURSIVE MarkdownImagePaths(_, _)
MarkdownImagePaths(s, i) ==
    IF i > Len(s) THEN <<>>
    ELSE LET ap == FindImagesMatch(s, i)
         IN  IF ap[2] = 0 THEN MarkdownImagePaths(s, i + 1)
             ELSE <<ReplaceAll(SubSeq(s, ap[1] + 2, ap[2] - 1), <<"%", "2", "0">>, <<" ">>)>>
                      \o MarkdownImagePaths(s, ap[2] + 1)

\* for match in re.finditer(obsidian_pattern, content): img_name, in order
RECURSIVE ObsidianImageNames(_, _)
ObsidianImageNames(s, i) ==
    IF i > Len(s) THEN <<>>
    ELSE IF ObsidianMatchEnd(s, i) = 0 THEN ObsidianImageNames(s, i + 1)
    ELSE <<SubSeq(s, i + 3, ObsidianMatchEnd(s, i) - 2)>>
             \o ObsidianImageNames(s, ObsidianMatchEnd(s, i) + 1)

ObsidianMark == <<"o", "b", "s", "i", "d", "i", "a", "n", ":">>

\* sep.join(strs)
RECURSIVE JoinWith(_, _)
JoinWith(strs, sep) ==
    IF strs = <<>> THEN <<>>
    ELSE IF Len(strs) = 1 THEN strs[1]
    ELSE strs[1] \o sep \o JoinWith(Tail(strs), sep)

\* base_path / img_path, as a string
FullPath(base_path, img_path) == JoinWith(base_path \o <<img_path>>, <<"/">>)

\* find_images(content, base_path): (working_images, broken_images); existing0 holds
\* the img_path values for which full_path.exists()
find_images(content0, base_path, existing0) ==
    LET paths == MarkdownImagePaths(content0, 1)
        names == ObsidianImageNames(content0, 1)
    IN  << [k \in 1..Len(SelectSeq(paths, LAMBDA q : q \in existing0)) |->
               FullPath(base_path, SelectSeq(paths, LAMBDA q : q \in existing0)[k])],
           SelectSeq(paths, LAMBDA q : q \notin existing0)
               \o [k \in 1..Len(names) |-> ObsidianMark \o names[k]] >>

process_markdown_file(name, content0, base_path, existing0) ==
    LET lines == SplitLines(content0)
        meta == parse_metadata(content0)
    IN  [images |-> find_images(content0, base_path, existing0)[1],
         broken_images |-> find_images(content0, base_path, existing0)[2],
         source_file |-> FullPath(base_path, name),
         notion_id |-> IF extract_notion_id(name) # None THEN extract_notion_id(name)
                       ELSE Stem(name),
         title |-> IF TitleMatch(lines) # 0
                   THEN SubSeq(lines[TitleMatch(lines)], Len(HeadingMarker) + 1,
                               Len(lines[TitleMatch(lines)]))
                   ELSE Stem(name),
         meta |-> meta,
         status |-> DictGet(meta, StatusKey, <<>>),
         body |-> extract_body(content0)]

MaxLines == 3

LinePool ==
    { <<"#", " ", "T">>,
      <<"S", "t", "a", "t", "u", "s", ":", " ", "D", "o", "n", "e">>,
      <<"P", "u", "b", "l", "i", "s", "h", " ", "D", "a", "t", "e", ":", "1">>,
      <<>>,
      <<"t", "e", "x", "t">>,
      <<"N", "o", "t", "e", ":", " ", "x">>,
      <<"!", "[", "[", "a", ".", "p", "n", "g", "]", "]">> }

NameWithId == IdDoc \o <<" ">> \o IdA \o DotMd

NamePlain == IdDoc \o DotMd

NameShortHex == IdDoc \o <<" ">> \o Prefix(IdA, PrefixLen) \o DotMd

MdNames == {NameWithId, NamePlain, NameShortHex}

InitParse ==
    /\ md_name \in MdNames
    /\ md_text \in {JoinLines(ls) : ls \in SeqsUpTo(LinePool, MaxLines)}
    /\ item = None /\ reparsed = None /\ ppc = "read"
    /\ RewriteIdle /\ image_mapping = <<>>
    /\ MatchIdle
    /\ CopyIdle
    /\ MapperIdle
    /\ RunIdle
    /\ ExportIdle

ProcessMarkdownFile ==
    /\ ppc = "read"
    /\ item' = process_markdown_file(md_name, md_text, md_dir, existing)
    /\ ppc' = "item"
    /\ UNCHANGED <<md_name, md_text, reparsed>>
    /\ UNCHANGED <<rewriteVars, matchVars, copyVars, mapperVars, runVars, exportVars>>

\* the two parsers applied once more, to the body they produced
Reparse ==
    /\ ppc = "item"
    /\ reparsed' = [meta |-> parse_metadata(item.body), body |-> extract_body(item.body)]
    /\ ppc' = "reparsed"
    /\ UNCHANGED <<md_name, md_text, item>>
    /\ UNCHANGED <<rewriteVars, matchVars, copyVars, mapperVars, runVars, exportVars>>

NextParse == ProcessMarkdownFile \/ Reparse

SpecParse == InitParse /\ [][NextParse]_vars

----------------------------------------------------------------------------
(* Claims about process_markdown_file                                      *)

\* the file name reads "<title> <32 lowercase hex>.md"
TitledIdForm(name) ==
    /\ EndsWith(name, DotMd)
    /\ Len(name) - Len(DotMd) >= NotionIdLen + 2
    /\ \A i \in (Len(name) - Len(DotMd) - NotionIdLen + 1)..(Len(name) - Len(DotMd)) :
          name[i] \in HexChars
    /\ name[Len(name) - Len(DotMd) - NotionIdLen] \in Whitespace

\* the file name ends in 32 lowercase hex characters before ".md"
HasTrailingToken(name) ==
    /\ EndsWith(name, DotMd)
    /\ Len(name) - Len(DotMd) >= NotionIdLen
    /\ \A i \in (Len(name) - Len(DotMd) - NotionIdLen + 1)..(Len(name) - Len(DotMd)) :
          name[i] \in HexChars

ClaimedId(name) ==
    SubSeq(name, Len(name) - Len(DotMd) - NotionIdLen + 1, Len(name) - Len(DotMd))

\* the title the resolver is said to give: the token and the whitespace before it
\* stripped, or the name minus its extension
ClaimedTitle(name) ==
    IF TitledIdForm(name)
    THEN Strip(SubSeq(name, 1, Len(name) - Len(DotMd) - NotionIdLen))
    ELSE SubSeq(name, 1, Len(name) - Len(DotMd))

Range(seq) == {seq[i] : i \in DOMAIN seq}

\* C6: a document whose title comes from its file name (the text has no title
\* heading) has, for a name "<title> <32 hex>.md", the token as its id and <title>
\* as its title; for a name without a trailing 32-hex token no id is extracted and
\* the title is the name minus its extension.
C6_FilenameYieldsIdAndTitle ==
    (ppc = "item" /\ TitleMatch(SplitLines(md_text)) = 0) =>
        IF TitledIdForm(md_name)
        THEN item.notion_id = ClaimedId(md_name) /\ item.title = ClaimedTitle(md_name)
        ELSE ~HasTrailingToken(md_name) =>
                /\ extract_notion_id(md_name) = None
                /\ item.title = ClaimedTitle(md_name)

\* the lines after the title line
AfterTitle(lines) == (TitleLineNumber(lines) + 1)..Len(lines)

\* the first line after the title that is not empty and is not 'Key: value';
\* 0 when every line after the title is one or the other
FirstNonMatching(lines) ==
    FirstOf({i \in AfterTitle(lines) :
                Strip(lines[i]) # <<>> /\ ~KeyValueMatch(Strip(lines[i]))})

\* the 'Key: value' lines that precede the first non-matching non-empty line
ClaimedMetadataLines(lines) ==
    {i \in AfterTitle(lines) :
        /\ KeyValueMatch(Strip(lines[i]))
        /\ FirstNonMatching(lines) = 0 \/ i < FirstNonMatching(lines)}

\* every line from the first non-matching line onward
ClaimedBodyLines(lines) ==
    IF FirstNonMatching(lines) = 0 THEN {} ELSE FirstNonMatching(lines)..Len(lines)

\* C7: in a document that opens with its title line, the lines after it are
\* partitioned: the lines that give a metadata entry are exactly the 'Key: value'
\* lines before the first non-matching non-empty line, the lines kept in the body
\* are exactly the lines from that line on, and the metadata holds the entries of
\* those lines only.
C7_MetadataAndBodyPartitionLines ==
    (ppc = "item" /\ TitleLineNumber(SplitLines(md_text)) = 1) =>
        LET lines == SplitLines(md_text)
            consumed == Range(MetadataLineNumbers(lines, TitleLineNumber(lines) + 1))
            kept == Range(BodyLineNumbers(lines, 1, TRUE, FALSE))
        IN  /\ consumed = ClaimedMetadataLines(lines)
            /\ kept = ClaimedBodyLines(lines)
            /\ consumed \cap kept = {}
            /\ DOMAIN item.meta = {KeyOf(Strip(lines[i])) : i \in ClaimedMetadataLines(lines)}

\* C8: parsing the extracted body once more yields no metadata entry and the
\* same body.
C8_ExtractionIsIdempotent ==
    ppc = "reparsed" => DOMAIN reparsed.meta = {} /\ reparsed.body = item.body

\* C9: a text with no line starting with '# ' gives empty metadata, the whole
\* trimmed text as body, and the title derived from the file name.
C9_NoHeadingMeansAllBody ==
    (ppc = "item" /\ TitleLineNumber(SplitLines(md_text)) = 0) =>
        /\ DOMAIN item.meta = {}
        /\ item.body = Strip(md_text)
        /\ item.title = ClaimedTitle(md_name)

----------------------------------------------------------------------------
(* The record mappers: import_to_airtable.py map_record / main and         *)
(* full_import.py import_documents                                         *)

Published == <<"P", "u", "b", "l", "i", "s", "h", "e", "d">>

Inbox == <<"I", "n", "b", "o", "x">>

Imported == <<"I", "m", "p", "o", "r", "t", "e", "d">>

HashReference == <<"#", "r", "e", "f", "e", "r", "e", "n", "c", "e">>

HashIdea == <<"#", "i", "d", "e", "a">>

\* full_import.py
full_import_FIELD_MAPPING ==
    << <<"title", "Title">>, <<"content", "Content">>, <<"status", "Status">>,
       <<"notion_id", "Notion_ID">>, <<"tags", "Notion_Tag">>,
       <<"publish_date", "Publish_Date">> >>

full_import_STATUS_MAPPING ==
    (Published :> Published) @@ (Inbox :> Inbox) @@ (Imported :> Inbox)
    @@ (HashReference :> Inbox) @@ (HashIdea :> Inbox) @@ (<<>> :> None)

\* import_to_airtable.py
import_to_airtable_FIELD_MAPPING ==
    << <<"title", "Title">>, <<"body", "Content">>, <<"status", "Status">>,
       <<"notion_id", "Notion_ID">>, <<"tags", "Notion_Tag">>,
       <<"publish_date", "Publish_Date">> >>

import_to_airtable_STATUS_MAPPING ==
    (Published :> Published) @@ (Inbox :> Inbox)
    @@ (HashReference :> Inbox) @@ (HashIdea :> Inbox) @@ (<<>> :> None)

\* value.strip().strip('"').strip("'")
clean_value(value) == StripChars(StripChars(Strip(value), {"\""}), {"'"})

\* import_to_airtable.py: `fields` after the first k entries of FIELD_MAPPING
RECURSIVE MapRecordFields(_, _)
MapRecordFields(notion_record, k) ==
    IF k = 0 THEN <<>>
    ELSE LET notion_key == import_to_airtable_FIELD_MAPPING[k][1]
             airtable_key == import_to_airtable_FIELD_MAPPING[k][2]
             value == DictGet(notion_record, notion_key, <<>>)
             cleaned == clean_value(value)
             mapped_status == DictGet(import_to_airtable_STATUS_MAPPING, cleaned, None)
             before == MapRecordFields(notion_record, k - 1)
         IN  IF value = <<>> THEN before
             ELSE IF notion_key = "status"
                  THEN IF mapped_status = None THEN before
                       ELSE (airtable_key :> mapped_status) @@ before
                  ELSE (airtable_key :> cleaned) @@ before

\* import_to_airtable.py map_record: the "fields" of the returned dict
map_record(notion_record, project_id0) ==
    IF project_id0 # None
    THEN ("PROJECT" :> <<project_id0>>)
         @@ MapRecordFields(notion_record, Len(import_to_airtable_FIELD_MAPPING))
    ELSE MapRecordFields(notion_record, Len(import_to_airtable_FIELD_MAPPING))

\* full_import.py import_documents: `fields` after the first k entries of FIELD_MAPPING
RECURSIVE ImportFields(_, _, _)
ImportFields(record, m, k) ==
    IF k = 0 THEN <<>>
    ELSE LET json_key == full_import_FIELD_MAPPING[k][1]
             airtable_key == full_import_FIELD_MAPPING[k][2]
             value == clean_value(DictGet(record, json_key, <<>>))
             mapped == DictGet(full_import_STATUS_MAPPING, value, None)
             before == ImportFields(record, m, k - 1)
         IN  IF DictGet(record, json_key, <<>>) = <<>> THEN before
             ELSE IF json_key = "status"
                  THEN IF mapped = None THEN before
                       ELSE (airtable_key :> mapped) @@ before
             ELSE IF json_key = "content"
                  THEN (airtable_key :> replace_image_references(value, m)) @@ before
                  ELSE (airtable_key :> value) @@ before

\* full_import.py import_documents: `fields` when the title test is reached
PreparedFields(record, m) ==
    IF DictGet(record, "project", <<>>) # <<>>
    THEN ("Import_Project" :> record["project"])
         @@ ImportFields(record, m, Len(full_import_FIELD_MAPPING))
    ELSE ImportFields(record, m, Len(full_import_FIELD_MAPPING))

MaxRecords == 2

TitleT == <<"T">>

\* a row of the JSON file
SourceRecord(title0, status0, text_key, text) ==
    ("title" :> title0) @@ ("status" :> status0) @@ (text_key :> text)

StatusPool ==
    { Imported, Published, <<>>, <<"D", "r", "a", "f", "t">>, <<" ", "\"", "I", "n", "b", "o", "x", "\"", " ">>, HashIdea }

RecordPool ==
    {SourceRecord(t, s, "body", <<"x">>) : t \in {TitleT, <<>>}, s \in StatusPool}
    \cup {SourceRecord(TitleT, Published, "content", ObsidianRef(EntryA.name, <<>>).raw),
          SourceRecord(<<"\"", "\"">>, Inbox, "content", <<"x">>) @@ ("project" :> <<"P">>)}

BATCH_SIZE == 10

MaxLong == 21

\* row i of a long file: every fourth row has an empty title
LongRecord(i) ==
    SourceRecord(IF i % 4 = 0 THEN <<>> ELSE TitleT, Published, "body", <<"x">>)
    @@ ("notion_id" :> IntToStr(i))

LongFiles == {[i \in 1..n |-> LongRecord(i)] : n \in 0..MaxLong}

\* response.status_code: 200 and one non-success code
ResponseCodes == {200, 422}

SomeKey == <<"k", "e", "y">>

\* a slice that takes one record too many: airtable_records[i:i + BATCH_SIZE + 1]
SliceOneTooMany(seq, i, n) == SubSeq(seq, i + 1, IF i + n + 1 < Len(seq) THEN i + n + 1 ELSE Len(seq))

\* airtable_records[i:i + BATCH_SIZE]
Slice(seq, i, n) == SubSeq(seq, i + 1, IF i + n < Len(seq) THEN i + n ELSE Len(seq))

InitMapper ==
    /\ importer \in {"full_import", "import_to_airtable"}
    /\ records \in SeqsUpTo(RecordPool, MaxRecords) \cup LongFiles
    /\ project_id \in IF importer = "import_to_airtable" THEN {None, "recP"} ELSE {None}
    /\ visited = 0 /\ fields = <<>> /\ airtable_records = <<>> /\ skipped = 0
    /\ api_key = SomeKey /\ run = "records" /\ next_batch = 0 /\ requests_log = <<>>
    /\ success = 0 /\ failed = 0 /\ image_files = <<>> /\ uploaded = <<>>
    /\ ExportIdle
    /\ RewriteIdle /\ image_mapping = <<EntryA>>
    /\ MatchIdle
    /\ CopyIdle
    /\ ParseIdle

\* import_to_airtable.py main: one pass of `for r in records`
MapRecord ==
    /\ importer = "import_to_airtable"
    /\ run = "records"
    /\ visited < Len(records)
    /\ visited' = visited + 1
    /\ fields' = map_record(records[visited + 1], project_id)
    /\ airtable_records' = Append(airtable_records, [fields |-> fields'])
    /\ UNCHANGED <<importer, records, project_id, skipped>>
    /\ UNCHANGED <<rewriteVars, matchVars, copyVars, parseVars, runVars, exportVars>>

\* full_import.py import_documents: one pass of `for record in records`
PrepareRecord ==
    /\ importer = "full_import"
    /\ run = "records"
    /\ visited < Len(records)
    /\ visited' = visited + 1
    /\ fields' = PreparedFields(records[visited + 1], image_mapping)
    /\ IF fields' # <<>> /\ DictGet(fields', "Title", <<>>) # <<>>
       THEN /\ airtable_records' = Append(airtable_records, [fields |-> fields'])
            /\ UNCHANGED skipped
       ELSE /\ skipped' = skipped + 1
            /\ UNCHANGED airtable_records
    /\ UNCHANGED <<importer, records, project_id>>
    /\ UNCHANGED <<rewriteVars, matchVars, copyVars, parseVars, runVars, exportVars>>

\* full_import.py import_documents: one pass of the batch loop
SubmitBatch ==
    /\ importer = "full_import"
    /\ run = "records"
    /\ visited = Len(records)
    /\ next_batch < Len(airtable_records)
    /\ \E status_code \in ResponseCodes :
          LET batch == Slice(airtable_records, next_batch, BATCH_SIZE)
          IN  /\ requests_log' = Append(requests_log,
                     [kind |-> "batch", records |-> batch, status_code |-> status_code])
              /\ IF status_code = 200
                 THEN success' = success + Len(batch) /\ UNCHANGED failed
                 ELSE failed' = failed + Len(batch) /\ UNCHANGED success
    /\ next_batch' = next_batch + BATCH_SIZE
    /\ UNCHANGED <<api_key, run, image_files, uploaded>>
    /\ UNCHANGED <<rewriteVars, matchVars, copyVars, parseVars, mapperVars, exportVars>>

\* import_to_airtable.py upload_batch(session, records): (success, failed)
upload_batch(batch, status_code) ==
    IF status_code = 200 THEN <<Len(batch), 0>> ELSE <<0, Len(batch)>>

\* import_to_airtable.py main: one pass of the batch loop
UploadBatch ==
    /\ importer = "import_to_airtable"
    /\ run = "records"
    /\ visited = Len(records)
    /\ next_batch < Len(airtable_records)
    /\ \E status_code \in ResponseCodes :
          LET batch == Slice(airtable_records, next_batch, BATCH_SIZE)
          IN  /\ requests_log' = Append(requests_log,
                     [kind |-> "batch", records |-> batch, status_code |-> status_code])
              /\ success' = success + upload_batch(batch, status_code)[1]
              /\ failed' = failed + upload_batch(batch, status_code)[2]
    /\ next_batch' = next_batch + BATCH_SIZE
    /\ UNCHANGED <<api_key, run, image_files, uploaded>>
    /\ UNCHANGED <<rewriteVars, matchVars, copyVars, parseVars, mapperVars, exportVars>>

\* the batch loop is over: the totals are printed and the run ends
Finish ==
    /\ run = "records"
    /\ visited = Len(records)
    /\ next_batch >= Len(airtable_records)
    /\ run' = "done"
    /\ UNCHANGED <<api_key, next_batch, requests_log, success, failed, image_files, uploaded>>
    /\ UNCHANGED <<rewriteVars, matchVars, copyVars, parseVars, mapperVars, exportVars>>

NextMapper == MapRecord \/ PrepareRecord \/ SubmitBatch \/ UploadBatch \/ Finish

SpecMapper == InitMapper /\ [][NextMapper]_vars

\* the status translation table of the script that runs
StatusTable ==
    IF importer = "full_import" THEN full_import_STATUS_MAPPING
    ELSE import_to_airtable_STATUS_MAPPING

\* C10: the field set built for a source record has a Status field exactly when
\* the cleaned source status is a key of the status table with a non-skip value,
\* the field then holds the translated value, and the status "Imported" gives the
\* Status "Inbox".
C10_StatusFieldIffTranslatable ==
    visited > 0 =>
        LET cleaned == clean_value(DictGet(records[visited], "status", <<>>))
        IN  /\ "Status" \in DOMAIN fields
                <=> (cleaned \in DOMAIN StatusTable /\ StatusTable[cleaned] # None)
            /\ "Status" \in DOMAIN fields => fields["Status"] = StatusTable[cleaned]
            /\ cleaned = Imported => "Status" \in DOMAIN fields /\ fields["Status"] = Inbox

\* the Title of a prepared record, empty when it has none
TitleOf(prepared) == DictGet(prepared.fields, "Title", <<>>)

\* the records of every batch submitted so far, in the order they were sent
RECURSIVE Submitted(_)
Submitted(log) ==
    IF log = <<>> THEN <<>>
    ELSE (IF Head(log).kind = "batch" THEN Head(log).records ELSE <<>>) \o Submitted(Tail(log))

\* C11: no record without a non-empty Title is ever submitted, every source
\* record gone through is either prepared or counted as skipped, the records
\* counted as skipped are exactly those without a Title, and none of them is
\* counted as failed.
C11_UntitledRecordsAreSkipped ==
    /\ \A k \in 1..Len(Submitted(requests_log)) : TitleOf(Submitted(requests_log)[k]) # <<>>
    /\ Len(airtable_records) + skipped = visited
    /\ skipped = Cardinality({k \in 1..visited :
                    clean_value(DictGet(records[k], "title", <<>>)) = <<>>})
    /\ success + failed <= Len(airtable_records)

----------------------------------------------------------------------------
(* notion_to_airtable.py main: the export pass over one document           *)

TagsKey == <<"t", "a", "g", "s">>

PublishDateKey == <<"p", "u", "b", "l", "i", "s", "h", "_", "d", "a", "t", "e">>

\* export_json: the dict d written for one item
ExportRow(it) ==
    [notion_id |-> it.notion_id,
     title |-> it.title,
     status |-> it.status,
     publish_date |-> DictGet(it.meta, PublishDateKey, <<>>),
     tags |-> DictGet(it.meta, TagsKey, <<>>),
     body |-> it.body,
     images |-> JoinWith([k \in 1..Len(it.images) |-> SrcName(it.images[k])], <<",", " ">>),
     broken_images |-> JoinWith(it.broken_images, <<",", " ">>),
     source_file |-> it.source_file]

TitleLine == <<"#", " ", "T", "\n">>

ImgA == <<"a">> \o Png

ImgAB == <<"a", " ", "b", ".", "j", "p", "g">>

ImgRemote == <<"h", "t", "t", "p", ":", "/", "/", "h", "/", "a", ".", "p", "n", "g">>

ExportPartPool ==
    { TextPart(<<"x", " ">>),
      MarkdownRef(<<"k">>, ImgA),
      MarkdownRef(<<>>, <<"a", "%", "2", "0", "b", ".", "j", "p", "g">>),
      MarkdownRef(<<"k">>, PathPA),
      MarkdownRef(<<"k">>, ImgRemote),
      ObsidianRef(ImgA, <<>>) }

\* the folders from the export root to the document
ExportDirs == { <<>>, <<<<"W">>, <<"F">>>>, <<<<"W">>, <<"M">>, <<"F">>>> }

InitExport ==
    /\ md_name \in {NameWithId, NamePlain}
    /\ md_dir \in ExportDirs
    /\ parts \in SeqsUpTo(ExportPartPool, MaxParts)
    /\ md_text = TitleLine \o Flatten([i \in 1..Len(parts) |-> parts[i].raw])
    /\ existing \in SUBSET {ImgA, ImgAB, PathPA}
    /\ item = None /\ reparsed = None /\ ppc = "read"
    /\ export_row = None /\ epc = "run"
    /\ body = <<>> /\ content = <<>> /\ rpc = "idle" /\ image_mapping = <<>>
    /\ MatchIdle
    /\ CopyIdle
    /\ MapperIdle
    /\ RunIdle

\* main: image_mapping = copy_images(items, output_dir), up to the first pass of the loop
BeginCopy ==
    /\ epc = "run" /\ ppc = "item" /\ cpc = "idle"
    /\ pending' = [k \in 1..Len(item.images) |->
                      CopyTask(item.notion_id, item.images[k], TRUE)]
    /\ \E old \in SUBSET {FlatName(IdA, ImgA)} : images_dir' = [n \in old |-> <<"o", "l", "d">>]
    /\ dir0' = images_dir'
    /\ copy_mapping' = <<>>
    /\ cpc' = "loop"
    /\ UNCHANGED <<new_name, counter, copied, clobbered>>
    /\ UNCHANGED <<rewriteVars, matchVars, parseVars, mapperVars, runVars, exportVars>>

\* main: export_json(items, output_dir / 'content.json')
ExportJson ==
    /\ epc = "run" /\ cpc = "done"
    /\ export_row' = ExportRow(item)
    /\ epc' = "done"
    /\ UNCHANGED <<md_dir, existing>>
    /\ UNCHANGED <<rewriteVars, matchVars, copyVars, parseVars, mapperVars, runVars>>

NextExport ==
    \/ ProcessMarkdownFile \/ BeginCopy \/ StartCopy \/ RetryName \/ CopyFile
    \/ ReturnMapping \/ ExportJson

SpecExport == InitExport /\ [][NextExport]_vars

----------------------------------------------------------------------------
(* Claims about the export pass                                            *)

SentinelProject == <<"I", "n", "b", "o", "x">>

WrapperFolder == <<"W">>

PersonalProjectsMarker == <<"M">>

GenericProject == <<"P", "r", "o", "j", "e", "c", "t", "s">>

\* a folder name with a trailing identifier token and the whitespace before it stripped
StripIdToken(folder) ==
    IF /\ Len(folder) >= NotionIdLen + 2
       /\ \A i \in (Len(folder) - NotionIdLen + 1)..Len(folder) : folder[i] \in HexChars
       /\ folder[Len(folder) - NotionIdLen] \in Whitespace
    THEN Strip(SubSeq(folder, 1, Len(folder) - NotionIdLen))
    ELSE folder

\* the project the resolver is said to give for the folders above a document
ClaimedProject(dirs) ==
    LET rest == IF dirs # <<>> /\ dirs[1] = WrapperFolder THEN Tail(dirs) ELSE dirs
    IN  IF rest = <<>> THEN SentinelProject
        ELSE IF rest[1] = PersonalProjectsMarker
             THEN IF Len(rest) >= 2 THEN rest[2] ELSE GenericProject
             ELSE StripIdToken(rest[1])

\* C12: the row written for a document carries a non-empty project, the one its
\* folders determine ("Inbox" directly under the root or the wrapper, the folder
\* below the personal-projects marker, otherwise the first folder without its
\* identifier token), which the import pass finds under the key "project".
C12_EveryRowCarriesItsProject ==
    epc = "done" =>
        /\ "project" \in DOMAIN export_row
        /\ DictGet(export_row, "project", <<>>) # <<>>
        /\ DictGet(export_row, "project", <<>>) = ClaimedProject(md_dir)

\* the image path a reference of the body names ('%20' decoded in the
\* bracketed-path notation)
RefPath(part) ==
    IF part.kind = "markdown" THEN ReplaceAll(part.target, <<"%", "2", "0">>, <<" ">>)
    ELSE part.target

NetworkScheme == <<"h", "t", "t", "p">>

\* the references of the body to local images
LocalRefs ==
    {k \in 1..Len(parts) :
        parts[k].kind # "text" /\ ~StartsWith(RefPath(parts[k]), NetworkScheme)}

\* C13: a reference to a local image, in either notation, is in the document's
\* resolved list exactly when its target exists in the document's folder and in
\* its broken list otherwise; when copy_images returns, the files copied are
\* exactly the resolved references.
C13_ResolvedIffTargetExists ==
    /\ ppc = "item" =>
          \A k \in LocalRefs :
             LET target == RefPath(parts[k])
                 resolved == FullPath(md_dir, target) \in Range(item.images)
                 broken == \/ target \in Range(item.broken_images)
                           \/ ObsidianMark \o target \in Range(item.broken_images)
             IN  /\ resolved <=> target \in existing
                 /\ broken <=> target \notin existing
    /\ cpc = "done" =>
          {copied[i][2] : i \in 1..Len(copied)}
             = {FullPath(md_dir, RefPath(parts[k])) :
                   k \in {j \in LocalRefs : RefPath(parts[j]) \in existing}}

\* C14: a bracketed-path reference whose path begins with a network scheme is in
\* neither list of the document.
C14_NetworkReferencesIgnored ==
    ppc = "item" =>
        \A k \in 1..Len(parts) :
           (parts[k].kind = "markdown" /\ StartsWith(parts[k].target, NetworkScheme)) =>
               /\ parts[k].target \notin Range(item.broken_images)
               /\ FullPath(md_dir, parts[k].target) \notin Range(item.images)

\* C15: in the row written by the export, every bracketed-path reference whose
\* image was copied has given way to ![alt](<new flat filename>): the body holds
\* the rebuilt reference with the alt text kept, and no longer the raw token.
C15_CopiedReferencesRewrittenInBody ==
    epc = "done" =>
        \A k \in 1..Len(parts) :
           (parts[k].kind = "markdown"
              /\ FullPath(md_dir, RefPath(parts[k])) \in DOMAIN copy_mapping) =>
               /\ Contains(export_row.body,
                     MarkdownRef(parts[k].alt,
                                 copy_mapping[FullPath(md_dir, RefPath(parts[k]))]).raw)
               /\ ~Contains(export_row.body, parts[k].raw)

\* the number of records in the batches of the log that got (ok) or did not get
\* (~ok) the response 200
RECURSIVE CountedAs(_, _)
CountedAs(log, ok) ==
    IF log = <<>> THEN 0
    ELSE (IF Head(log).kind = "batch" /\ (Head(log).status_code = 200) = ok
          THEN Len(Head(log).records) ELSE 0) + CountedAs(Tail(log), ok)

\* C16: every batch sent holds between 1 and BATCH_SIZE records; the batches sent
\* so far are, in order, the first records of the prepared list, each record in
\* one batch; the records of batches answered 200 are counted as succeeded, the
\* others as failed; and when the run ends every prepared record has been sent,
\* whatever the responses were, so succeeded + failed is the number prepared.
C16_BatchesCoverPreparedRecordsOnce ==
    /\ \A k \in 1..Len(requests_log) :
          requests_log[k].kind = "batch" =>
              Len(requests_log[k].records) \in 1..BATCH_SIZE
    /\ Len(Submitted(requests_log)) <= Len(airtable_records)
    /\ Submitted(requests_log) = SubSeq(airtable_records, 1, Len(Submitted(requests_log)))
    /\ \A k \in 1..(Len(requests_log) - 1) : Len(requests_log[k].records) = BATCH_SIZE
    /\ success = CountedAs(requests_log, TRUE)
    /\ failed = CountedAs(requests_log, FALSE)
    /\ run = "done" =>
          /\ Submitted(requests_log) = airtable_records
          /\ success + failed = Len(airtable_records)

\* a run ended after three batches, the first of which was refused
C16_Witness ==
    /\ run = "done"
    /\ Len(requests_log) = 3
    /\ requests_log[1].status_code # 200
    /\ requests_log[3].status_code = 200
    /\ failed = BATCH_SIZE
    /\ success = Len(airtable_records) - BATCH_SIZE

----------------------------------------------------------------------------
(* main of full_import.py and of import_to_airtable.py, from the start     *)

\* full_import.py extract_image_name: re.match(r'^[a-f0-9]{8}_(.+)$', filename)
extract_image_name(filename) ==
    IF /\ Len(filename) >= PrefixLen + 2
       /\ \A i \in 1..PrefixLen : filename[i] \in HexChars
       /\ filename[PrefixLen + 1] = "_"
       /\ filename[PrefixLen + 2] # "\n"
    THEN SubSeq(filename, PrefixLen + 2, Len(filename))
    ELSE filename

\* f.suffix.lower() in ['.png', '.jpg', '.jpeg', '.gif', '.webp']
IsImageFile(filename) ==
    /\ LastIndexOf(filename, ".") > 1
    /\ Lower(SubSeq(filename, LastIndexOf(filename, "."), Len(filename))) \in ImageExts

\* mapping[image_name] = (rec_id, att_id): a key already there keeps its place
DictSet(m, name, rec, att) ==
    IF InMapping(m, name)
    THEN [k \in 1..Len(m) |-> IF m[k].name = name
                              THEN [name |-> name, rec |-> rec, att |-> att] ELSE m[k]]
    ELSE Append(m, [name |-> name, rec |-> rec, att |-> att])

MaxFiles == 2

FileA == <<"a", "a", "a", "a", "a", "a", "a", "a", "_", "a", ".", "p", "n", "g">>

FileB == <<"b", "b", "b", "b", "b", "b", "b", "b", "_", "a", ".", "p", "n", "g">>

FileDoc == <<"D", "o", "c", "_", "b", ".", "P", "N", "G">>

FileTxt == <<"n", ".", "t", "x", "t">>

\* what IMAGES_DIR may hold: files copy_images wrote for several documents
DirFiles == {FileA, FileB, FileDoc, FileTxt}

MainRecordPool ==
    { SourceRecord(TitleT, Imported, "body", <<"x">>),
      SourceRecord(<<>>, Published, "content", ObsidianRef(ImgA, <<>>).raw) }

InitMain ==
    /\ importer \in {"full_import", "import_to_airtable"}
    /\ api_key \in {<<>>, SomeKey}
    /\ records \in {<<>>} \cup SeqsUpTo(MainRecordPool, MaxRecords)
    /\ image_files \in IF importer = "full_import"
                       THEN InjectiveSeqs(DirFiles, MaxFiles) ELSE {<<>>}
    /\ run = "main"
    /\ project_id = None
    /\ visited = 0 /\ fields = <<>> /\ airtable_records = <<>> /\ skipped = 0
    /\ next_batch = 0 /\ requests_log = <<>> /\ success = 0 /\ failed = 0
    /\ uploaded = <<>>
    /\ RewriteIdle /\ image_mapping = <<>>
    /\ MatchIdle
    /\ CopyIdle
    /\ ParseIdle
    /\ ExportIdle

\* an import run that never tests the key
StartFullImportUnchecked ==
    /\ importer = "full_import"
    /\ run = "main"
    /\ run' = "images"
    /\ image_files' = SelectSeq(image_files, IsImageFile)
    /\ UNCHANGED <<api_key, next_batch, requests_log, success, failed, uploaded>>
    /\ UNCHANGED <<rewriteVars, matchVars, copyVars, parseVars, mapperVars, exportVars>>

\* main: if not AIRTABLE_API_KEY: ... return / sys.exit(1)
AbortNoKey ==
    /\ run = "main"
    /\ api_key = <<>>
    /\ run' = "exit"
    /\ UNCHANGED <<api_key, next_batch, requests_log, success, failed, image_files, uploaded>>
    /\ UNCHANGED <<rewriteVars, matchVars, copyVars, parseVars, mapperVars, exportVars>>

\* full_import.py main with a key: the session is set up and upload_images_to_asset
\* lists the image files of IMAGES_DIR
StartFullImport ==
    /\ importer = "full_import"
    /\ run = "main"
    /\ api_key # <<>>
    /\ run' = "images"
    /\ image_files' = SelectSeq(image_files, IsImageFile)
    /\ UNCHANGED <<api_key, next_batch, requests_log, success, failed, uploaded>>
    /\ UNCHANGED <<rewriteVars, matchVars, copyVars, parseVars, mapperVars, exportVars>>

\* upload_images_to_asset: one pass of `for i, img_file in enumerate(image_files, 1)`;
\* the response is 200 with an attachment id, 200 without one, or a refusal
UploadImage ==
    /\ run = "images"
    /\ image_files # <<>>
    /\ \E status_code \in ResponseCodes, with_att \in BOOLEAN :
          LET img_file == Head(image_files)
              rec_id == <<"rec", Len(requests_log) + 1>>
              att_id == <<"att", Len(requests_log) + 1>>
          IN  /\ status_code # 200 => with_att
              /\ requests_log' = Append(requests_log,
                     [kind |-> "asset", file |-> img_file, records |-> <<>>,
                      status_code |-> status_code])
              /\ IF status_code = 200 /\ with_att
                 THEN /\ image_mapping' = DictSet(image_mapping,
                                                  extract_image_name(img_file), rec_id, att_id)
                      /\ uploaded' = Append(uploaded,
                             [file |-> img_file, rec |-> rec_id, att |-> att_id])
                 ELSE UNCHANGED <<image_mapping, uploaded>>
    /\ image_files' = Tail(image_files)
    /\ UNCHANGED <<parts, body, content, rpc>>
    /\ UNCHANGED <<api_key, run, next_batch, success, failed>>
    /\ UNCHANGED <<matchVars, copyVars, parseVars, mapperVars, exportVars>>

\* upload_images_to_asset returns mapping; main calls import_documents, which loads
\* the rows
ReturnAssetMapping ==
    /\ run = "images"
    /\ image_files = <<>>
    /\ run' = "records"
    /\ UNCHANGED <<api_key, next_batch, requests_log, success, failed, image_files, uploaded>>
    /\ UNCHANGED <<rewriteVars, matchVars, copyVars, parseVars, mapperVars, exportVars>>

\* import_to_airtable.py main with a key: the rows are loaded and the session is set up
StartImport ==
    /\ importer = "import_to_airtable"
    /\ run = "main"
    /\ api_key # <<>>
    /\ run' = "project"
    /\ UNCHANGED <<api_key, next_batch, requests_log, success, failed, image_files, uploaded>>
    /\ UNCHANGED <<rewriteVars, matchVars, copyVars, parseVars, mapperVars, exportVars>>

\* create_project_if_needed: the GET; a 200 answer with a record ends the search
QueryProject ==
    /\ run = "project"
    /\ \E status_code \in ResponseCodes, has_records \in BOOLEAN :
          /\ requests_log' = Append(requests_log,
                 [kind |-> "project_get", records |-> <<>>, status_code |-> status_code])
          /\ IF status_code = 200 /\ has_records
             THEN project_id' = "recP" /\ run' = "records"
             ELSE UNCHANGED project_id /\ run' = "create"
    /\ UNCHANGED <<api_key, next_batch, success, failed, image_files, uploaded>>
    /\ UNCHANGED <<importer, records, visited, fields, airtable_records, skipped>>
    /\ UNCHANGED <<rewriteVars, matchVars, copyVars, parseVars, exportVars>>

\* create_project_if_needed: the POST that creates the project
CreateProject ==
    /\ run = "create"
    /\ \E status_code \in ResponseCodes :
          /\ requests_log' = Append(requests_log,
                 [kind |-> "project_post", records |-> <<>>, status_code |-> status_code])
          /\ project_id' = IF status_code = 200 THEN "recNew" ELSE None
    /\ run' = "records"
    /\ UNCHANGED <<api_key, next_batch, success, failed, image_files, uploaded>>
    /\ UNCHANGED <<importer, records, visited, fields, airtable_records, skipped>>
    /\ UNCHANGED <<rewriteVars, matchVars, copyVars, parseVars, exportVars>>

NextMain ==
    \/ AbortNoKey \/ StartFullImport \/ UploadImage \/ ReturnAssetMapping
    \/ StartImport \/ QueryProject \/ CreateProject
    \/ MapRecord \/ PrepareRecord \/ SubmitBatch \/ UploadBatch \/ Finish

SpecMain == InitMain /\ [][NextMain]_vars

(* C17: when AIRTABLE_API_KEY is missing or empty (os.environ.get gives ""  *)
(* in both cases) an import run of either script ends at once and performs  *)
(* no network request: no image upload, no project query, no project        *)
(* creation and no batch submission is ever logged, nothing is uploaded or  *)
(* counted, and the run is either not started or already over.              *)
C17_NoRequestWithoutKey ==
    api_key = <<>> =>
        /\ requests_log = <<>>
        /\ uploaded = <<>> /\ image_mapping = <<>>
        /\ success = 0 /\ failed = 0
        /\ run \in {"main", "exit"}

\* a run without a key has ended although there were images and rows to send
C17_Witness ==
    /\ api_key = <<>>
    /\ run = "exit"
    /\ records # <<>>
    /\ importer = "full_import" => image_files # <<>>

----------------------------------------------------------------------------
(* The full pipeline: the export pass of notion_to_airtable.py over one     *)
(* document, then full_import.py run on the files it wrote                  *)

\* full_import.py main, run with a key after the export: CONTENT_JSON holds the row
\* written by export_json, IMAGES_DIR the files of copy_images, listed by iterdir in
\* any order
ImportExported ==
    /\ epc = "done"
    /\ run = "idle"
    /\ api_key' = SomeKey
    /\ importer' = "full_import"
    /\ records' = <<export_row>>
    /\ \E listing \in InjectiveSeqs(DOMAIN images_dir, Cardinality(DOMAIN images_dir)) :
          /\ Len(listing) = Cardinality(DOMAIN images_dir)
          /\ image_files' = SelectSeq(listing, IsImageFile)
    /\ run' = "images"
    /\ UNCHANGED <<next_batch, requests_log, success, failed, uploaded>>
    /\ UNCHANGED <<project_id, visited, fields, airtable_records, skipped>>
    /\ UNCHANGED <<rewriteVars, matchVars, copyVars, parseVars, exportVars>>

NextPipeline ==
    \/ ProcessMarkdownFile \/ BeginCopy \/ StartCopy \/ RetryName \/ CopyFile
    \/ ReturnMapping \/ ExportJson
    \/ ImportExported \/ UploadImage \/ ReturnAssetMapping
    \/ PrepareRecord \/ SubmitBatch \/ Finish

SpecPipeline == InitExport /\ [][NextPipeline]_vars

\* the prepared record has a Content field holding the exported body, cleaned and
\* with its image references rewritten
HoldsContent(prepared) ==
    /\ "Content" \in DOMAIN prepared.fields
    /\ prepared.fields["Content"]
         = replace_image_references(clean_value(export_row.body), image_mapping)

\* C18: the body of the row the export wrote reaches the destination: when the row
\* has a non-empty body and import_documents has prepared its record, the record
\* has a Content field and that field is the row's body (cleaned as every value is)
\* with its image references rewritten against the asset mapping; the same holds
\* for the record in the batch that is submitted.
C18_BodyReachesContent ==
    (run \in {"records", "done"} /\ visited = 1 /\ clean_value(export_row.body) # <<>>) =>
        /\ Len(airtable_records) = 1
        /\ HoldsContent(airtable_records[1])
        /\ \A k \in 1..Len(Submitted(requests_log)) : HoldsContent(Submitted(requests_log)[k])

\* C19: after any sequence of uploads the asset mapping has one entry of its own
\* for every image that was uploaded with an attachment id: the entry is keyed
\* by the image's flat, prefixed file name and holds the ids returned for that
\* image, no upload has replaced the entry of another image, and the mapping has
\* as many entries as there were such uploads.
C19_EveryUploadKeepsItsEntry ==
    importer = "full_import" =>
        /\ Len(image_mapping) = Len(uploaded)
        /\ \A i \in 1..Len(uploaded) :
              \E k \in 1..Len(image_mapping) :
                 /\ image_mapping[k].name = uploaded[i].file
                 /\ image_mapping[k].rec = uploaded[i].rec
                 /\ image_mapping[k].att = uploaded[i].att

\* the caption the reference asks for: its alt or alias text when there is one and
\* it does not end in an image extension, else the file's basename without its
\* extension
ClaimedCaption(p) ==
    IF p.alt # <<>> /\ ~(\E e \in ImageExts : EndsWith(p.alt, e))
    THEN p.alt
    ELSE RSplitHead(RefFilename(p), ".")

\* C20: every reference of the body that is matched, in either notation, has
\* become an asset pointer whose caption is the reference's alt / alias text when
\* one is given that is not an image filename, and otherwise the basename of the
\* referenced file (path prefix removed) without its extension.
C20_CaptionIsAltOrBasename ==
    rpc = "done" =>
        \A k \in 1..Len(parts) :
            LET ids == find_asset_match(MatchArg(parts[k]), image_mapping)
            IN  (parts[k].kind # "text" /\ ids # <<None, None>>) =>
                    Contains(content, AssetPointer(ClaimedCaption(parts[k]), ids[1], ids[2]))

----------------------------------------------------------------------------
(* Value cleaning: clean_json.py over the JSON file, and the cleaning done  *)
(* by the field-mapping loops of the two importers                          *)

QuoteChars == {"\"", "'"}

\* clean_json.py clean_value: strip(), then leading quote characters dropped one by
\* one, then trailing ones (together: both ends stripped of quote characters), then
\* strip() again
clean_json_clean_value(value) == Strip(StripChars(Strip(value), QuoteChars))

MaxValueLen == 4

\* string values of a row: whitespace, both quote characters and a letter
ValuePool == {<<>>} \cup SeqsUpTo({" ", "\"", "'", "x"}, MaxValueLen)

\* the JSON file holds one row; nothing has run yet
InitClean ==
    /\ importer \in {"full_import", "import_to_airtable"}
    /\ \E v \in ValuePool, text_key \in {"body", "content"} :
          records \in { <<SourceRecord(v, Published, text_key, <<"x">>)>>,
                        <<SourceRecord(TitleT, v, text_key, <<"x">>)>>,
                        <<SourceRecord(TitleT, Published, text_key, v)>> }
    /\ project_id \in IF importer = "import_to_airtable" THEN {None, "recP"} ELSE {None}
    /\ visited = 0 /\ fields = <<>> /\ airtable_records = <<>> /\ skipped = 0
    /\ api_key = SomeKey /\ run = "file" /\ next_batch = 0 /\ requests_log = <<>>
    /\ success = 0 /\ failed = 0 /\ image_files = <<>> /\ uploaded = <<>>
    /\ ExportIdle
    /\ RewriteIdle /\ image_mapping = <<>>
    /\ MatchIdle
    /\ CopyIdle
    /\ ParseIdle

\* clean_json.py main: every string of every record is replaced by its cleaned value
\* and the file is written back
CleanJson ==
    /\ run = "file"
    /\ records' = [i \in 1..Len(records) |->
                      [key \in DOMAIN records[i] |-> clean_json_clean_value(records[i][key])]]
    /\ run' = "cleaned"
    /\ UNCHANGED <<importer, project_id, visited, fields, airtable_records, skipped>>
    /\ UNCHANGED <<api_key, next_batch, requests_log, success, failed, image_files, uploaded>>
    /\ UNCHANGED <<rewriteVars, matchVars, copyVars, parseVars, exportVars>>

\* an importer is started on the file, cleaned or not, and loads its rows
ImportFile ==
    /\ run \in {"file", "cleaned"}
    /\ run' = "records"
    /\ UNCHANGED <<api_key, next_batch, requests_log, success, failed, image_files, uploaded>>
    /\ UNCHANGED <<rewriteVars, matchVars, copyVars, parseVars, mapperVars, exportVars>>

NextClean ==
    \/ CleanJson \/ ImportFile
    \/ MapRecord \/ PrepareRecord \/ SubmitBatch \/ UploadBatch \/ Finish

SpecClean == InitClean /\ [][NextClean]_vars

\* the field mapping of the script that runs
FieldMapping ==
    IF importer = "full_import" THEN full_import_FIELD_MAPPING
    ELSE import_to_airtable_FIELD_MAPPING

\* no whitespace and no quote character at either end
IsCleaned(value) ==
    value # <<>> =>
        /\ value[1] \notin Whitespace \cup QuoteChars
        /\ value[Len(value)] \notin Whitespace \cup QuoteChars

\* C21: value cleaning considers only non-empty source values (an empty one gives
\* no destination field); the cleaned form of every source string has no
\* whitespace and no single or double quote at either end, and cleaning it again
\* changes nothing; the field-mapping loop emits no destination field whose value
\* is the empty string, and what it emits is cleaned; and after clean_json.py has
\* run every string of the file is cleaned and cleaning it again changes nothing.
C21_CleanedValuesAreTrimmedAndStable ==
    /\ run = "cleaned" =>
          \A i \in 1..Len(records) : \A key \in DOMAIN records[i] :
             /\ IsCleaned(records[i][key])
             /\ clean_json_clean_value(records[i][key]) = records[i][key]
    /\ visited = 1 =>
          \A k \in 1..Len(FieldMapping) :
             LET src == DictGet(records[1], FieldMapping[k][1], <<>>)
                 dst == FieldMapping[k][2]
             IN  /\ src = <<>> => dst \notin DOMAIN fields
                 /\ IsCleaned(clean_value(src))
                 /\ clean_value(clean_value(src)) = clean_value(src)
                 /\ dst \in DOMAIN fields => (fields[dst] # <<>> /\ IsCleaned(fields[dst]))

====
